---- MODULE Spec2Model ----
(***************************************************************************)
(* pcl::PointCloud<Spannable<PointT>> (include/pcl_cloud_span/impl/        *)
(* point_cloud.h): a point grid whose points live in a span_or_vector,     *)
(* which either owns its storage (a vector) or borrows external storage    *)
(* (a span).                                                               *)
(*                                                                         *)
(* The header of span_or_vector is not part of the sources; its behaviour  *)
(* (the definitions whose names start with buf_ and vec_) follows the     *)
(* written specification of the buffer: sequence semantics when Owning,    *)
(* CapacityViolation on every length-changing call when Borrowing.         *)
(***************************************************************************)
EXTENDS Integers, Sequences, FiniteSets

(* ---------------------------- bounds ----------------------------------- *)
\* longest point buffer an Owning grid is allowed to allocate in the model
MaxLen == 3
\* longest range handed to assign / insert / concatenate
MaxRange == 2
\* longest index list handed to the subset copy constructor
MaxIdx == 3
\* largest column and row handed to at(column, row) and operator()
MaxCoord == 2

(* ------------------------- machine integers ---------------------------- *)
\* 2^16: the smallest dimension whose square wraps a std::uint32_t to 0
HalfWord == 2 ^ 16

\* std::uint32_t * std::uint32_t, that is a * b modulo 2^32, computed on the
\* 16-bit halves of a and b: the term of weight 2^32 drops out, and the part
\* of the middle term above 2^16 drops out with it. (Every value of the model
\* is below 2^31, where a std::uint32_t and a std::size_t hold the same
\* number and the casts between them keep it.)
Mul32(a, b) ==
  LET ah == a \div HalfWord
      al == a % HalfWord
      bh == b \div HalfWord
      bl == b % HalfWord
  IN al * bl + HalfWord * ((ah * bl + al * bh) % HalfWord)

\* the largest std::int32_t, the type of index_t
IntMax == 2147483647

\* index_t * index_t of two values that are not negative stays inside index_t
\* (beyond it the signed product is undefined)
SignedFits(a, b) == IF a = 0 THEN TRUE ELSE b <= IntMax \div a

Max(a, b) == IF a >= b THEN a ELSE b

(* ------------------------------ values --------------------------------- *)
\* two point values tell every position of the model's buffers apart
Points == {0, 1}

\* PointT(): the default-constructed point
DefaultPoint == 0

\* header.stamp
Stamps == {0, 1}

\* dimensions a caller passes: small ones, and one whose square overflows
Dims == (0..MaxLen) \cup {HalfWord}

\* counts a caller passes: one more than an Owning grid may hold, so that a
\* full Borrowing grid can be asked to grow
Counts == 0..(MaxLen + 1)

SeqsUpTo(n) == UNION {[1..k -> Points] : k \in 0..n}

\* the ranges [first, last) and initializer lists a caller passes
Ranges == SeqsUpTo(MaxRange)

Fill(n, v) == [i \in 1..n |-> v]

VARIABLES
  phase,   \* "construct": no constructor has run; "live"; "aborted": an assert failed
  cloud,   \* the grid: header, points, width, height, is_dense, sensor pose
  ext,     \* the external array a Borrowing grid views
  other,   \* the second grid of the last call (cloud2, pc), as the call left it
  last     \* the last call: its name, arguments, pre-state and outcome

vars == <<phase, cloud, ext, other, last>>

(* --------------------------- the buffer -------------------------------- *)
\* span_or_vector in vector mode
OwningBuf(s) == [mode |-> "Owning", vec |-> s, n |-> 0]

\* span_or_vector(data, n): a span over the first n external elements
BorrowingBuf(n) == [mode |-> "Borrowing", vec |-> <<>>, n |-> n]

\* the elements of buffer p, e being the external array
Elems(p, e) == IF p.mode = "Borrowing" THEN SubSeq(e, 1, p.n) ELSE p.vec

\* points.size()
Size(p) == IF p.mode = "Borrowing" THEN p.n ELSE Len(p.vec)

\* outcome of a call on grid c with external array e
Ok(c, e) == [c |-> c, e |-> e, err |-> "none", warn |-> FALSE]

Throw(c, e, what) == [c |-> c, e |-> e, err |-> what, warn |-> FALSE]

\* the buffer of c takes the contents new (of length newLen): in place when
\* Borrowing, and then only if the length is kept
buf_store(c, e, newLen, new) ==
  IF c.points.mode = "Borrowing"
  THEN IF newLen # c.points.n
       THEN Throw(c, e, "CapacityViolation")
       ELSE Ok(c, new \o SubSeq(e, newLen + 1, Len(e)))
  ELSE Ok([c EXCEPT !.points.vec = new], e)

\* std::vector::resize(n, v) on contents s
vec_resize(s, n, v) ==
  IF n <= Len(s) THEN SubSeq(s, 1, n) ELSE s \o Fill(n - Len(s), v)

\* std::vector::insert(begin() + pos, xs...) on contents s
vec_insert(s, pos, xs) == SubSeq(s, 1, pos) \o xs \o SubSeq(s, pos + 1, Len(s))

\* std::vector::erase(begin() + first, begin() + lst) on contents s
vec_erase(s, first, lst) == SubSeq(s, 1, first) \o SubSeq(s, lst + 1, Len(s))

\* points.resize(n, v)
buf_resize(c, e, n, v) ==
  buf_store(c, e, n, vec_resize(Elems(c.points, e), n, v))

\* points.assign(...): the contents become xs
buf_assign(c, e, xs) == buf_store(c, e, Len(xs), xs)

\* points.insert(begin() + pos, xs...), push_back, emplace
buf_insert(c, e, pos, xs) ==
  buf_store(c, e, Size(c.points) + Len(xs), vec_insert(Elems(c.points, e), pos, xs))

\* points.erase(begin() + first, begin() + lst)
buf_erase(c, e, first, lst) ==
  buf_store(c, e, Size(c.points) - (lst - first), vec_erase(Elems(c.points, e), first, lst))

\* points.clear()
buf_clear(c, e) == buf_store(c, e, 0, <<>>)

\* points.at(n): the element, or std::out_of_range
buf_at(c, e, n) ==
  IF n < Size(c.points)
  THEN [err |-> "none", ret |-> Elems(c.points, e)[n + 1]]
  ELSE [err |-> "OutOfRange", ret |-> DefaultPoint]

(* ---------------------------- the grid --------------------------------- *)
\* PointCloud() = default
DefaultCloud ==
  [header |-> 0, points |-> OwningBuf(<<>>), width |-> 0, height |-> 0,
   is_dense |-> TRUE, sensor |-> "identity"]

\* PointCloud(data, width_, height_) that allocates its own points
SpanCloud_allocates(w, h) ==
  [DefaultCloud EXCEPT !.points = OwningBuf(Fill(Mul32(w, h), DefaultPoint)),
                       !.width = w, !.height = h]

\* PointCloud(PointT* data, width_, height_)
SpanCloud(w, h) ==
  [DefaultCloud EXCEPT !.points = BorrowingBuf(Mul32(w, h)), !.width = w, !.height = h]

\* PointCloud(width_, height_, value_)
FillCloud(w, h, v) ==
  [DefaultCloud EXCEPT !.points = OwningBuf(Fill(Mul32(w, h), v)),
                       !.width = w, !.height = h]

\* PointCloud(pc, indices) that leaves is_dense at its default
SubsetCloud_default_dense(pc, pcElems, indices) ==
  [header |-> pc.header,
   points |-> OwningBuf([i \in 1..Len(indices) |-> pcElems[indices[i] + 1]]),
   width |-> Len(indices), height |-> 1,
   is_dense |-> TRUE, sensor |-> pc.sensor]

\* PointCloud(pc, indices) past its assert; indices are 0-based
SubsetCloud(pc, pcElems, indices) ==
  [header |-> pc.header,
   points |-> OwningBuf([i \in 1..Len(indices) |-> pcElems[indices[i] + 1]]),
   width |-> Len(indices), height |-> 1,
   is_dense |-> pc.is_dense, sensor |-> pc.sensor]

\* assert(indices.size() <= pc.size())
SubsetAssert(pcSize, indices) == Len(indices) <= pcSize

\* size()
size(c) == Size(c.points)

\* isOrganized()
isOrganized(c) == c.height > 1

\* what follows the buffer call r of a mutation: the exception propagates, or
\* width and height become w and h
Then(r, w, h) ==
  IF r.err # "none" THEN r ELSE [r EXCEPT !.c.width = w, !.c.height = h]

\* width = size(); height = 1;
Collapse(r) == Then(r, size(r.c), 1)

\* resize(count, value) that appends default points whatever the value
resize_drops_value(c, e, count, v) ==
  LET r == buf_resize(c, e, count, DefaultPoint)
  IN IF r.err # "none" THEN r
     ELSE IF Mul32(c.width, c.height) # count THEN Then(r, count, 1) ELSE r

\* resize(count) that collapses the grid whatever the count
resize_always_collapses(c, e, count, v) == Collapse(buf_resize(c, e, count, v))

\* resize(count) and resize(count, value)
resize(c, e, count, v) ==
  LET r == buf_resize(c, e, count, v)
  IN IF r.err # "none" THEN r
     ELSE IF Mul32(c.width, c.height) # count THEN Then(r, count, 1) ELSE r

\* resize(new_width, new_height) that stores the two dimensions swapped
resize2_swapped(c, e, w, h, v) == Then(buf_resize(c, e, Mul32(w, h), v), h, w)

\* resize(new_width, new_height) and resize(new_width, new_height, value)
resize2(c, e, w, h, v) == Then(buf_resize(c, e, Mul32(w, h), v), w, h)

\* assign(count, value)
assign(c, e, count, v) == Collapse(buf_assign(c, e, Fill(count, v)))

\* assign(new_width, new_height, value)
assign2(c, e, w, h, v) == Then(buf_assign(c, e, Fill(Mul32(w, h), v)), w, h)

\* assign(first, last) and assign(ilist)
assign_range(c, e, xs) == Collapse(buf_assign(c, e, xs))

\* assign(first, last, new_width) without the check that width * height is the size
assign_width_no_fallback(c, e, xs, new_width) ==
  IF new_width = 0
  THEN [assign_range(c, e, xs) EXCEPT !.warn = TRUE]
  ELSE LET r == buf_assign(c, e, xs)
       IN Then(r, new_width, size(r.c) \div new_width)

\* assign(first, last, new_width) and assign(ilist, new_width)
assign_width(c, e, xs, new_width) ==
  IF new_width = 0
  THEN [assign_range(c, e, xs) EXCEPT !.warn = TRUE]
  ELSE LET r == buf_assign(c, e, xs)
           h == size(r.c) \div new_width
       IN IF r.err # "none" THEN r
          ELSE IF Mul32(new_width, h) # size(r.c)
               THEN [Then(r, size(r.c), 1) EXCEPT !.warn = TRUE]
               ELSE Then(r, new_width, h)

\* push_back that sets width and height before points.push_back is known to
\* have succeeded
push_back_shape_first(c, e, pt) ==
  LET r == buf_insert(c, e, size(c), <<pt>>)
  IN [r EXCEPT !.c.width = size(c) + 1, !.c.height = 1]

\* push_back(pt), emplace_back(args...)
push_back(c, e, pt) == Collapse(buf_insert(c, e, size(c), <<pt>>))

\* transient_push_back(pt), transient_emplace_back(args...)
transient_push_back(c, e, pt) == buf_insert(c, e, size(c), <<pt>>)

\* insert(position, pt), insert(position, n, pt), insert(position, first, last),
\* emplace(position, args...): xs are the points put before position
insert(c, e, pos, xs) == Collapse(buf_insert(c, e, pos, xs))

\* transient_insert that restores width = size(), height = 1 as insert does
transient_insert_restores_shape(c, e, pos, xs) == Collapse(buf_insert(c, e, pos, xs))

\* transient_insert in its three forms, transient_emplace
transient_insert(c, e, pos, xs) == buf_insert(c, e, pos, xs)

\* erase(position) and erase(first, last)
erase(c, e, first, lst) == Collapse(buf_erase(c, e, first, lst))

\* transient_erase(position) and transient_erase(first, last)
transient_erase(c, e, first, lst) == buf_erase(c, e, first, lst)

\* clear() that resets is_dense to its default as well
clear_resets_dense(c, e) ==
  LET r == Then(buf_clear(c, e), 0, 0)
  IN IF r.err # "none" THEN r ELSE [r EXCEPT !.c.is_dense = TRUE]

\* clear()
clear(c, e) == Then(buf_clear(c, e), 0, 0)

\* concatenate that takes the stamp and the is_dense of cloud2
concatenate_takes_second(c, e, c2, c2Elems) ==
  LET r == insert(c, e, size(c), c2Elems)
      s == IF r.err # "none" THEN r
           ELSE [Collapse(r) EXCEPT !.c.is_dense = c2.is_dense, !.c.header = c2.header]
  IN [c |-> s.c, e |-> s.e, err |-> s.err, warn |-> s.warn, c2 |-> c2,
      ret |-> TRUE]

\* concatenate(cloud1, cloud2), operator+=: c2Elems are the points of cloud2
concatenate(c, e, c2, c2Elems) ==
  LET c1 == [c EXCEPT !.header = Max(c.header, c2.header)]
      r == insert(c1, e, size(c1), c2Elems)
      s == IF r.err # "none" THEN r
           ELSE [Collapse(r) EXCEPT !.c.is_dense = c1.is_dense /\ c2.is_dense]
  IN [c |-> s.c, e |-> s.e, err |-> s.err, warn |-> s.warn, c2 |-> c2,
      ret |-> TRUE]

\* span_or_vector(const span_or_vector&): an Owning deep copy, whatever the
\* mode of the source
buf_copy(p, e) == OwningBuf(Elems(p, e))

\* PointCloud(const PointCloud&), implicit: every member is copied
CopyCloud(c, e) == [c EXCEPT !.points = buf_copy(c.points, e)]

\* cloud_out = cloud1, implicit, cloud_out being another object: every member
\* is assigned, and the buffer of cloud_out becomes an Owning deep copy
AssignCloud(c, e) == [c EXCEPT !.points = buf_copy(c.points, e)]

\* operator+ that concatenates into *this, not into a copy
plus_in_place(c, e, c2, c2Elems) == concatenate(c, e, c2, c2Elems)

\* operator+(rhs): PointCloud(*this) += rhs; c is the returned grid
plus(c, e, c2, c2Elems) == concatenate(CopyCloud(c, e), e, c2, c2Elems)

\* concatenate(cloud1, cloud2, cloud_out), cloud_out being a third object; c
\* is cloud_out
concatenate3(c, e, c2, c2Elems) == concatenate(AssignCloud(c, e), e, c2, c2Elems)

\* concatenate(cloud1, cloud2, cloud1): the assignment cloud_out = cloud1 is
\* one of an object to itself and changes nothing
concatenate3_into_first(c, e, c2, c2Elems) == concatenate(c, e, c2, c2Elems)

\* the points an insert may read from the range [begin(), end()) of the very
\* buffer it inserts into, which is undefined: the points s themselves, or as
\* many copies of some point
SelfRange(s) == {s} \cup {Fill(Len(s), v) : v \in Points}

\* concatenate(cloud1, cloud2, cloud2): cloud_out = cloud1 overwrites cloud2,
\* and concatenate(cloud_out, cloud2) then inserts cloud_out into itself, xs
\* being the points the insert reads
concatenate3_into_second(c, e, xs) ==
  concatenate(AssignCloud(c, e), e, AssignCloud(c, e), xs)

\* makeShared(): new PointCloud(*this)
makeShared(c, e) == CopyCloud(c, e)

\* the linear offset of at(column, row): row * this->width + column, where the
\* int row is converted to the unsigned 32-bit type of width and the product
\* wraps (the sum stays below 2^31 in the model)
at_index(c, col, row) == Mul32(row, c.width) + col

\* at(column, row) that tests height != 1, as its comment puts it
at_height_not_one(c, e, col, row) ==
  IF c.height # 1
  THEN buf_at(c, e, at_index(c, col, row))
  ELSE [err |-> "UnorganizedAccess", ret |-> DefaultPoint]

\* at(column, row)
at(c, e, col, row) ==
  IF c.height > 1
  THEN buf_at(c, e, at_index(c, col, row))
  ELSE [err |-> "UnorganizedAccess", ret |-> DefaultPoint]

\* the linear offset of operator()(column, row), in std::size_t
paren_index(c, col, row) == row * c.width + col

\* operator()(column, row): the values points[row * width + column] may read;
\* past the end the read is undefined and may give any point
paren(c, e, col, row) ==
  IF paren_index(c, col, row) < size(c)
  THEN {Elems(c.points, e)[paren_index(c, col, row) + 1]}
  ELSE Points

\* operator()(column, row) = v, the offset being inside the buffer
paren_write(c, e, col, row, v) ==
  LET i == paren_index(c, col, row) + 1
  IN IF c.points.mode = "Borrowing"
     THEN Ok(c, [e EXCEPT ![i] = v])
     ELSE Ok([c EXCEPT !.points.vec[i] = v], e)

(* ---------------------------- actions ---------------------------------- *)
\* the arguments of a call that takes none
NoArgs ==
  [n |-> 0, w |-> 0, h |-> 0, v |-> DefaultPoint, pos |-> 0, lst |-> 0,
   xs |-> <<>>, b |-> DefaultCloud, flag |-> FALSE,
   chained |-> FALSE, first_n |-> 0, first |-> <<>>, out |-> DefaultCloud]

\* the call recorded in last: its name, its arguments a, the state it started
\* from, and how it ended (ret: the point it returned; flag: the bool it
\* returned; out: the grid it returned or left in cloud_out). A resize that
\* follows a resize directly is chained: first_n is the count of the resize
\* before it, first the points that one started from
Call(op, a, err, warn, ret) ==
  [op |-> op, pre |-> cloud, preExt |-> ext, err |-> err, warn |-> warn,
   ret |-> ret, flag |-> a.flag, n |-> a.n, w |-> a.w, h |-> a.h, v |-> a.v,
   pos |-> a.pos, lst |-> a.lst, xs |-> a.xs, b |-> a.b,
   chained |-> a.chained, first_n |-> a.first_n, first |-> a.first,
   out |-> a.out]

\* no call is under way: the caller has taken the outcome of the last one
NoCall ==
  [op |-> "none", pre |-> DefaultCloud, preExt |-> <<>>, err |-> "none",
   warn |-> FALSE, ret |-> DefaultPoint, flag |-> FALSE, n |-> 0, w |-> 0,
   h |-> 0, v |-> DefaultPoint, pos |-> 0, lst |-> 0, xs |-> <<>>,
   b |-> DefaultCloud, chained |-> FALSE, first_n |-> 0, first |-> <<>>,
   out |-> DefaultCloud]

\* the grid is constructed and the caller is free to make the next call
Ready == phase = "live" /\ last = NoCall

\* the last call was a resize(count[, value]) on an Owning grid, itself not
\* chained: the caller may resize again at once
AfterResize ==
  /\ phase = "live"
  /\ last.op \in {"resize", "resize_value"}
  /\ last.pre.points.mode = "Owning"
  /\ ~last.chained

\* the arguments of a resize(count[, value]), chained when it follows a resize
ResizeArgs(count, v) ==
  IF AfterResize
  THEN [NoArgs EXCEPT !.n = count, !.v = v, !.chained = TRUE, !.first_n = last.n,
                      !.first = Elems(last.pre.points, last.preExt)]
  ELSE [NoArgs EXCEPT !.n = count, !.v = v]

\* an Owning grid allocates at most MaxLen points in the model
Fits(n) == cloud.points.mode = "Borrowing" \/ n <= MaxLen

\* a call on cloud alone, with outcome r
Apply(op, r, a) ==
  /\ cloud' = r.c
  /\ ext' = r.e
  /\ other' = DefaultCloud
  /\ last' = Call(op, a, r.err, r.warn, DefaultPoint)
  /\ UNCHANGED phase

\* the grids handed in as cloud2 and pc
\* the shapes of a grid of n points: a list, and a column when it is organized
Shapes(n) == {<<n, 1>>} \cup (IF n > 1 THEN {<<1, n>>} ELSE {})

OtherClouds ==
  { [DefaultCloud EXCEPT !.points = OwningBuf(x[1]), !.width = x[2][1],
                         !.height = x[2][2], !.header = st, !.is_dense = d] :
    x \in {y \in Ranges \X ((0..MaxRange) \X (0..MaxRange)) : y[2] \in Shapes(Len(y[1]))},
    st \in Stamps, d \in BOOLEAN }

Init ==
  /\ phase = "construct"
  /\ cloud = DefaultCloud
  /\ ext = <<>>
  /\ other = DefaultCloud
  /\ last = NoCall

CtorDefault ==
  /\ phase = "construct"
  /\ phase' = "live"
  /\ cloud' = DefaultCloud
  /\ last' = Call("ctor_default", NoArgs, "none", FALSE, DefaultPoint)
  /\ UNCHANGED <<ext, other>>

CtorSpan ==
  /\ phase = "construct"
  /\ \E w \in Dims, h \in Dims :
       /\ Mul32(w, h) <= MaxLen
       /\ \E data \in [1..Mul32(w, h) -> Points] :
            /\ ext' = data
            /\ cloud' = SpanCloud(w, h)
            /\ last' = Call("ctor_span", [NoArgs EXCEPT !.w = w, !.h = h, !.xs = data],
                            "none", FALSE, DefaultPoint)
  /\ phase' = "live"
  /\ UNCHANGED other

CtorFill ==
  /\ phase = "construct"
  /\ \E w \in Dims, h \in Dims, v \in Points :
       /\ Mul32(w, h) <= MaxLen
       /\ cloud' = FillCloud(w, h, v)
       /\ last' = Call("ctor_fill", [NoArgs EXCEPT !.w = w, !.h = h, !.v = v],
                       "none", FALSE, DefaultPoint)
  /\ phase' = "live"
  /\ UNCHANGED <<ext, other>>

\* the index lists over a source of n points: every index is below n
IndexLists(n) == UNION {[1..k -> 0..(n - 1)] : k \in 0..MaxIdx}

\* PointCloud(pc, indices): where the assert fails, a build that keeps
\* asserts aborts and a build with NDEBUG goes on
CtorSubset ==
  /\ phase = "construct"
  /\ \E pc \in OtherClouds :
       \E indices \in IndexLists(size(pc)) :
         \E asserts \in BOOLEAN :
           LET a == [NoArgs EXCEPT !.b = pc, !.xs = indices]
               abort == asserts /\ ~SubsetAssert(size(pc), indices)
           IN /\ phase' = IF abort THEN "aborted" ELSE "live"
              /\ cloud' = IF abort THEN cloud
                          ELSE SubsetCloud(pc, Elems(pc.points, <<>>), indices)
              /\ other' = pc
              /\ last' = Call("ctor_subset", a, IF abort THEN "abort" ELSE "none",
                              FALSE, DefaultPoint)
  /\ UNCHANGED ext

Resize ==
  /\ Ready \/ AfterResize
  /\ \E count \in Counts :
       /\ Fits(count)
       /\ Apply("resize", resize(cloud, ext, count, DefaultPoint),
                ResizeArgs(count, DefaultPoint))

ResizeValue ==
  /\ Ready \/ AfterResize
  /\ \E count \in Counts, v \in Points :
       /\ Fits(count)
       /\ Apply("resize_value", resize(cloud, ext, count, v), ResizeArgs(count, v))

Resize2 ==
  /\ Ready
  /\ \E w \in Dims, h \in Dims :
       /\ Fits(Mul32(w, h))
       /\ Apply("resize2", resize2(cloud, ext, w, h, DefaultPoint),
                [NoArgs EXCEPT !.w = w, !.h = h])

\* new_width and new_height are index_t here: the caller keeps their product
\* inside index_t, where it is the unsigned product as well
Resize2Value ==
  /\ Ready
  /\ \E w \in Dims, h \in Dims, v \in Points :
       /\ SignedFits(w, h)
       /\ Fits(Mul32(w, h))
       /\ Apply("resize2_value", resize2(cloud, ext, w, h, v),
                [NoArgs EXCEPT !.w = w, !.h = h, !.v = v])

Assign ==
  /\ Ready
  /\ \E count \in Counts, v \in Points :
       /\ Fits(count)
       /\ Apply("assign", assign(cloud, ext, count, v),
                [NoArgs EXCEPT !.n = count, !.v = v])

\* new_width and new_height are index_t, as in Resize2Value; the caller has
\* at most MaxLen + 1 copies of value made
Assign2 ==
  /\ Ready
  /\ \E w \in Dims, h \in Dims, v \in Points :
       /\ SignedFits(w, h)
       /\ Fits(Mul32(w, h))
       /\ Mul32(w, h) <= MaxLen + 1
       /\ Apply("assign2", assign2(cloud, ext, w, h, v),
                [NoArgs EXCEPT !.w = w, !.h = h, !.v = v])

AssignRange ==
  /\ Ready
  /\ \E form \in {"assign_range", "assign_ilist"}, xs \in Ranges :
       Apply(form, assign_range(cloud, ext, xs), [NoArgs EXCEPT !.xs = xs])

AssignWidth ==
  /\ Ready
  /\ \E form \in {"assign_range_width", "assign_ilist_width"},
        xs \in Ranges, new_width \in Dims :
       Apply(form, assign_width(cloud, ext, xs, new_width),
             [NoArgs EXCEPT !.xs = xs, !.w = new_width])

PushBack ==
  /\ Ready
  /\ Fits(size(cloud) + 1)
  /\ \E form \in {"push_back", "emplace_back"}, pt \in Points :
       Apply(form, push_back(cloud, ext, pt), [NoArgs EXCEPT !.v = pt])

TransientPushBack ==
  /\ Ready
  /\ Fits(size(cloud) + 1)
  /\ \E form \in {"transient_push_back", "transient_emplace_back"}, pt \in Points :
       Apply(form, transient_push_back(cloud, ext, pt), [NoArgs EXCEPT !.v = pt])

Insert ==
  /\ Ready
  /\ Fits(size(cloud) + 1)
  /\ \E form \in {"insert", "emplace"}, pos \in 0..size(cloud), pt \in Points :
       Apply(form, insert(cloud, ext, pos, <<pt>>),
             [NoArgs EXCEPT !.pos = pos, !.v = pt, !.xs = <<pt>>])

InsertN ==
  /\ Ready
  /\ \E pos \in 0..size(cloud), n \in 0..MaxRange, pt \in Points :
       /\ Fits(size(cloud) + n)
       /\ Apply("insert_n", insert(cloud, ext, pos, Fill(n, pt)),
                [NoArgs EXCEPT !.pos = pos, !.n = n, !.v = pt, !.xs = Fill(n, pt)])

InsertRange ==
  /\ Ready
  /\ \E pos \in 0..size(cloud), xs \in Ranges :
       /\ Fits(size(cloud) + Len(xs))
       /\ Apply("insert_range", insert(cloud, ext, pos, xs),
                [NoArgs EXCEPT !.pos = pos, !.xs = xs])

TransientInsert ==
  /\ Ready
  /\ Fits(size(cloud) + 1)
  /\ \E form \in {"transient_insert", "transient_emplace"},
        pos \in 0..size(cloud), pt \in Points :
       Apply(form, transient_insert(cloud, ext, pos, <<pt>>),
             [NoArgs EXCEPT !.pos = pos, !.v = pt, !.xs = <<pt>>])

TransientInsertN ==
  /\ Ready
  /\ \E pos \in 0..size(cloud), n \in 0..MaxRange, pt \in Points :
       /\ Fits(size(cloud) + n)
       /\ Apply("transient_insert_n", transient_insert(cloud, ext, pos, Fill(n, pt)),
                [NoArgs EXCEPT !.pos = pos, !.n = n, !.v = pt, !.xs = Fill(n, pt)])

TransientInsertRange ==
  /\ Ready
  /\ \E pos \in 0..size(cloud), xs \in Ranges :
       /\ Fits(size(cloud) + Len(xs))
       /\ Apply("transient_insert_range", transient_insert(cloud, ext, pos, xs),
                [NoArgs EXCEPT !.pos = pos, !.xs = xs])

\* erase(position): position is the iterator of an element
Erase ==
  /\ Ready
  /\ \E pos \in 0..(size(cloud) - 1) :
       Apply("erase", erase(cloud, ext, pos, pos + 1),
             [NoArgs EXCEPT !.pos = pos, !.lst = pos + 1])

\* erase(first, last): [first, last) is a range of the buffer
EraseRange ==
  /\ Ready
  /\ \E first \in 0..size(cloud) :
       \E lst \in first..size(cloud) :
         Apply("erase_range", erase(cloud, ext, first, lst),
               [NoArgs EXCEPT !.pos = first, !.lst = lst])

TransientErase ==
  /\ Ready
  /\ \E pos \in 0..(size(cloud) - 1) :
       Apply("transient_erase", transient_erase(cloud, ext, pos, pos + 1),
             [NoArgs EXCEPT !.pos = pos, !.lst = pos + 1])

TransientEraseRange ==
  /\ Ready
  /\ \E first \in 0..size(cloud) :
       \E lst \in first..size(cloud) :
         Apply("transient_erase_range", transient_erase(cloud, ext, first, lst),
               [NoArgs EXCEPT !.pos = first, !.lst = lst])

Clear ==
  /\ Ready
  /\ Apply("clear", clear(cloud, ext), NoArgs)

\* concatenate(cloud, cloud2) and cloud += cloud2, cloud2 being another grid
Concatenate ==
  /\ Ready
  /\ \E form \in {"concatenate", "plus_assign"}, c2 \in OtherClouds :
       /\ Fits(size(cloud) + size(c2))
       /\ LET r == concatenate(cloud, ext, c2, Elems(c2.points, <<>>))
          IN /\ cloud' = r.c
             /\ ext' = r.e
             /\ other' = r.c2
             /\ last' = Call(form, [NoArgs EXCEPT !.b = c2, !.flag = (r.err = "none" /\ r.ret)],
                             r.err, r.warn, DefaultPoint)
  /\ UNCHANGED phase

\* cloud + cloud2: a new grid is returned, cloud is not touched
Plus ==
  /\ Ready
  /\ \E c2 \in OtherClouds :
       /\ size(cloud) + size(c2) <= MaxLen
       /\ LET r == plus(cloud, ext, c2, Elems(c2.points, <<>>))
          IN /\ ext' = r.e
             /\ other' = r.c2
             /\ last' = Call("plus", [NoArgs EXCEPT !.b = c2, !.out = r.c],
                             r.err, r.warn, DefaultPoint)
  /\ UNCHANGED <<phase, cloud>>

\* concatenate(cloud, cloud2, cloud_out), cloud_out being a third grid
Concatenate3 ==
  /\ Ready
  /\ \E c2 \in OtherClouds :
       /\ size(cloud) + size(c2) <= MaxLen
       /\ LET r == concatenate3(cloud, ext, c2, Elems(c2.points, <<>>))
          IN /\ ext' = r.e
             /\ other' = r.c2
             /\ last' = Call("concatenate3",
                             [NoArgs EXCEPT !.b = c2, !.out = r.c,
                                            !.flag = (r.err = "none" /\ r.ret)],
                             r.err, r.warn, DefaultPoint)
  /\ UNCHANGED <<phase, cloud>>

\* concatenate(cloud, cloud2, cloud), cloud being Owning (what the assignment
\* of a Borrowing buffer to itself does is not described)
Concatenate3IntoFirst ==
  /\ Ready
  /\ cloud.points.mode = "Owning"
  /\ \E c2 \in OtherClouds :
       /\ size(cloud) + size(c2) <= MaxLen
       /\ LET r == concatenate3_into_first(cloud, ext, c2, Elems(c2.points, <<>>))
          IN /\ cloud' = r.c
             /\ ext' = r.e
             /\ other' = r.c2
             /\ last' = Call("concatenate3_into_first",
                             [NoArgs EXCEPT !.b = c2, !.out = r.c,
                                            !.flag = (r.err = "none" /\ r.ret)],
                             r.err, r.warn, DefaultPoint)
  /\ UNCHANGED phase

\* concatenate(cloud, cloud2, cloud2): cloud2 is where the result is left
Concatenate3IntoSecond ==
  /\ Ready
  /\ 2 * size(cloud) <= MaxLen
  /\ \E c2 \in OtherClouds, xs \in SelfRange(Elems(cloud.points, ext)) :
       LET r == concatenate3_into_second(cloud, ext, xs)
       IN /\ ext' = r.e
          /\ other' = r.c
          /\ last' = Call("concatenate3_into_second",
                          [NoArgs EXCEPT !.b = c2, !.out = r.c, !.xs = xs,
                                         !.flag = (r.err = "none" /\ r.ret)],
                          r.err, r.warn, DefaultPoint)
  /\ UNCHANGED <<phase, cloud>>

MakeShared ==
  /\ Ready
  /\ last' = Call("makeShared", [NoArgs EXCEPT !.out = makeShared(cloud, ext)],
                  "none", FALSE, DefaultPoint)
  /\ other' = DefaultCloud
  /\ UNCHANGED <<phase, cloud, ext>>

Coords == 0..MaxCoord

\* a call that reads the grid and changes nothing
Read(op, a, err, ret) ==
  /\ last' = Call(op, a, err, FALSE, ret)
  /\ other' = DefaultCloud
  /\ UNCHANGED <<phase, cloud, ext>>

\* at(column, row) takes two ints: small ones, and one whose product with a
\* width of 2^16 wraps
AtCoords == Coords \cup {HalfWord}

At ==
  /\ Ready
  /\ \E col \in AtCoords, row \in AtCoords :
       LET r == at(cloud, ext, col, row)
       IN Read("at", [NoArgs EXCEPT !.w = col, !.h = row], r.err, r.ret)

Paren ==
  /\ Ready
  /\ \E col \in Coords, row \in Coords :
       \E ret \in paren(cloud, ext, col, row) :
         Read("paren", [NoArgs EXCEPT !.w = col, !.h = row], "none", ret)

ParenWrite ==
  /\ Ready
  /\ \E col \in Coords, row \in Coords, v \in Points :
       /\ paren_index(cloud, col, row) < size(cloud)
       /\ Apply("paren_write", paren_write(cloud, ext, col, row, v),
                [NoArgs EXCEPT !.w = col, !.h = row, !.v = v])

\* the owner of the external array writes one of its elements
ExtWrite ==
  /\ Ready
  /\ \E i \in 1..Len(ext), v \in Points :
       /\ ext' = [ext EXCEPT ![i] = v]
       /\ last' = Call("ext_write", [NoArgs EXCEPT !.pos = i - 1, !.v = v],
                       "none", FALSE, DefaultPoint)
  /\ other' = DefaultCloud
  /\ UNCHANGED <<phase, cloud>>

\* the caller takes the outcome of the call and goes on
Return ==
  /\ last # NoCall
  /\ last' = NoCall
  /\ other' = DefaultCloud
  /\ UNCHANGED <<phase, cloud, ext>>

Next ==
  \/ CtorDefault
  \/ CtorSpan
  \/ CtorFill
  \/ CtorSubset
  \/ Resize
  \/ ResizeValue
  \/ Resize2
  \/ Resize2Value
  \/ Assign
  \/ Assign2
  \/ AssignRange
  \/ AssignWidth
  \/ PushBack
  \/ TransientPushBack
  \/ Insert
  \/ InsertN
  \/ InsertRange
  \/ TransientInsert
  \/ TransientInsertN
  \/ TransientInsertRange
  \/ Erase
  \/ EraseRange
  \/ TransientErase
  \/ TransientEraseRange
  \/ Clear
  \/ Concatenate
  \/ Plus
  \/ Concatenate3
  \/ Concatenate3IntoFirst
  \/ Concatenate3IntoSecond
  \/ MakeShared
  \/ At
  \/ Paren
  \/ ParenWrite
  \/ ExtWrite
  \/ Return

Spec == Init /\ [][Next]_vars

(* --------------------------- the matrix view --------------------------- *)
\* most points of a grid a matrix view is taken of
MaxViewPoints == 2
\* most scalars written through matrix views
MaxViewWrites == 1

\* sizeof(PointT) / sizeof(float) of a record x, y, z, padding
SlotsPerPoint == 4

\* the float values of the model; reading outside the buffer may give any
Scalars == 0..7

\* the records the grids start with: x, y, z all different, padding 0
Records ==
  {[s \in 1..SlotsPerPoint |-> IF s = SlotsPerPoint THEN 0 ELSE b + s] : b \in {0, 3}}

\* the value a caller writes through a view, different from every initial one
ViewValue == 7

\* reinterpret_cast<float*>(points.data()): the scalars of the buffer, record
\* after record
RECURSIVE Floats(_)
Floats(s) == IF s = <<>> THEN <<>> ELSE Head(s) \o Floats(Tail(s))

\* the records that n * SlotsPerPoint scalars f are
AsRecords(f, n) ==
  [p \in 1..n |-> SubSeq(f, (p - 1) * SlotsPerPoint + 1, p * SlotsPerPoint)]

\* getMatrixXfMap(dim, stride, offset) that does not add the offset to data()
getMatrixXfMap_no_offset(c, dim, stride, offset, rowMajor) ==
  IF rowMajor
  THEN [base |-> 0, rows |-> size(c), cols |-> dim, outer |-> stride,
        rowMajor |-> TRUE]
  ELSE [base |-> 0, rows |-> dim, cols |-> size(c), outer |-> stride,
        rowMajor |-> FALSE]

\* getMatrixXfMap(dim, stride, offset): a map that starts offset scalars after
\* data(), of size() x dim coefficients where Eigen stores matrices by rows
\* (rowMajor) and dim x size() where it stores them by columns, with outer
\* stride stride
getMatrixXfMap(c, dim, stride, offset, rowMajor) ==
  IF rowMajor
  THEN [base |-> offset, rows |-> size(c), cols |-> dim, outer |-> stride,
        rowMajor |-> TRUE]
  ELSE [base |-> offset, rows |-> dim, cols |-> size(c), outer |-> stride,
        rowMajor |-> FALSE]

\* getMatrixXfMap()
getMatrixXfMap0(c, rowMajor) ==
  getMatrixXfMap(c, SlotsPerPoint, SlotsPerPoint, 0, rowMajor)

\* where coefficient (r, col) of map m lies, in scalars after data(): the
\* outer stride separates rows of a row-major map and columns of a
\* column-major one, the inner stride is 1
map_address(m, r, col) ==
  m.base + (IF m.rowMajor THEN r * m.outer + col ELSE col * m.outer + r)

\* the coefficient of map m that holds scalar i of point j
map_entry(m, i, j) ==
  IF m.rowMajor THEN map_address(m, j, i) ELSE map_address(m, i, j)

\* m(r, col) read at address a of the scalars f: outside them the read is
\* undefined
map_read(f, a) == IF a < Len(f) THEN {f[a + 1]} ELSE Scalars

\* m(r, col) = v at address a, inside the buffer: the scalar is written where
\* the points are, in the external array of a Borrowing grid
map_write(c, e, a, v) ==
  LET f == [Floats(Elems(c.points, e)) EXCEPT ![a + 1] = v]
      recs == AsRecords(f, size(c))
  IN IF c.points.mode = "Borrowing"
     THEN Ok(c, recs \o SubSeq(e, size(c) + 1, Len(e)))
     ELSE Ok([c EXCEPT !.points.vec = recs], e)

\* the shapes of a grid of n points
ViewShapes(n) == {x \in (0..n) \X (0..n) : x[1] * x[2] = n}

\* the grids matrix views are taken of: Owning and Borrowing, of every shape
ViewClouds ==
  { [DefaultCloud EXCEPT !.points = IF b THEN BorrowingBuf(Len(recs))
                                    ELSE OwningBuf(recs),
                         !.width = sh[1], !.height = sh[2]] :
    recs \in UNION {[1..k -> Records] : k \in 0..MaxViewPoints},
    sh \in UNION {ViewShapes(k) : k \in 0..MaxViewPoints}, b \in BOOLEAN }

\* what a caller passes for (dim, stride, offset): dim scalars of a record
\* from scalar offset on, the stride being the record
ViewArgs ==
  {<<"getMatrixXfMap", dim, SlotsPerPoint, offset>> :
     dim \in 1..SlotsPerPoint, offset \in 0..(SlotsPerPoint - 1)}
    \cup {<<"getMatrixXfMap0", SlotsPerPoint, SlotsPerPoint, 0>>}

\* the map that call a gives of grid c
ViewOf(c, a, rowMajor) ==
  IF a[1] = "getMatrixXfMap0"
  THEN getMatrixXfMap0(c, rowMajor)
  ELSE getMatrixXfMap(c, a[2], a[3], a[4], rowMajor)

\* the call recorded in last: the map m taken with arguments a, and the use
\* made of its entry for scalar i of point j
ViewCall(op, a, m, i, j, v, ret) ==
  [op |-> op, form |-> a[1], dim |-> a[2], stride |-> a[3], offset |-> a[4],
   view |-> m, i |-> i, j |-> j, v |-> v, ret |-> ret, err |-> "none",
   pre |-> cloud, preExt |-> ext]

\* the scalars written through views so far
ViewWrites ==
  Cardinality({k \in 1..(size(cloud) * SlotsPerPoint) :
                 Floats(Elems(cloud.points, ext))[k] = ViewValue})

ViewInit ==
  /\ phase = "live"
  /\ cloud \in ViewClouds
  /\ Mul32(cloud.width, cloud.height) = size(cloud)
  /\ ext \in UNION {[1..k -> Records] : k \in 0..MaxViewPoints}
  /\ IF cloud.points.mode = "Borrowing" THEN Len(ext) = size(cloud) ELSE ext = <<>>
  /\ other = DefaultCloud
  /\ last = NoCall

\* a view is taken and one of its entries is read
MatrixRead ==
  /\ Ready
  /\ \E a \in ViewArgs, rowMajor \in BOOLEAN :
       \E i \in 0..(a[2] - 1), j \in 0..(size(cloud) - 1) :
         LET m == ViewOf(cloud, a, rowMajor)
         IN \E ret \in map_read(Floats(Elems(cloud.points, ext)), map_entry(m, i, j)) :
              last' = ViewCall("matrix_read", a, m, i, j, ViewValue, ret)
  /\ UNCHANGED <<phase, cloud, ext, other>>

\* a view is taken and one of its entries, inside the buffer, is written
MatrixWrite ==
  /\ Ready
  /\ ViewWrites < MaxViewWrites
  /\ \E a \in ViewArgs, rowMajor \in BOOLEAN :
       \E i \in 0..(a[2] - 1), j \in 0..(size(cloud) - 1) :
         LET m == ViewOf(cloud, a, rowMajor)
             r == map_write(cloud, ext, map_entry(m, i, j), ViewValue)
         IN /\ map_entry(m, i, j) < size(cloud) * SlotsPerPoint
            /\ cloud' = r.c
            /\ ext' = r.e
            /\ last' = ViewCall("matrix_write", a, m, i, j, ViewValue, ViewValue)
  /\ UNCHANGED <<phase, other>>

ViewNext ==
  \/ MatrixRead
  \/ MatrixWrite
  \/ Return

ViewSpec == ViewInit /\ [][ViewNext]_vars

(* ------------------------- what the calls are -------------------------- *)
ResizeOps == {"resize", "resize_value"}

Resize2Ops == {"resize2", "resize2_value"}

\* the single-dimension mutations that set width = size(), height = 1
CollapsingOps ==
  {"assign", "assign_range", "assign_ilist", "push_back", "emplace_back",
   "insert", "insert_n", "insert_range", "emplace", "erase", "erase_range"}

ConcatOps == {"concatenate", "plus_assign"}

AssignWidthOps == {"assign_range_width", "assign_ilist_width"}

\* every mutating call that is not a transient_ one
NonTransientOps ==
  ResizeOps \cup Resize2Ops \cup CollapsingOps \cup ConcatOps \cup AssignWidthOps
    \cup {"assign2", "clear"}

\* the points of the grid now, and before the last call
Now == Elems(cloud.points, ext)

Before == Elems(last.pre.points, last.preExt)

\* w * h = n over the integers, without forming a product that a 32-bit
\* word cannot hold
ProductIs(w, h, n) ==
  IF w = 0 \/ h = 0 THEN n = 0 ELSE n % w = 0 /\ n \div w = h

(* ------------------------------- C1 ------------------------------------ *)
\* C1 as written: after every mutating call that is not transient, width times
\* height, as a product of integers, is the number of points.
C1_ProductOfIntegers ==
  last.op \in NonTransientOps => ProductIs(cloud.width, cloud.height, size(cloud))

\* What holds of C1: after every mutating call that is not transient,
\* width * height as the code computes it, in 32-bit unsigned arithmetic, is
\* the number of points; this includes calls that follow transient calls that
\* broke the equality, and calls that fail. The two differ only where the
\* product of the dimensions does not fit 32 bits.
C1_WidthTimesHeightIsSize ==
  last.op \in NonTransientOps => Mul32(cloud.width, cloud.height) = size(cloud)

\* a mutating call succeeded on a grid whose width * height was not its size
C1_Witness ==
  /\ last.op \in NonTransientOps
  /\ last.err = "none"
  /\ Mul32(last.pre.width, last.pre.height) # size(last.pre)
  /\ size(cloud) > 0

(* ------------------------------- C2 ------------------------------------ *)
\* the last call asked the grid to grow
Grows ==
  \/ last.op \in {"push_back", "emplace_back", "insert", "emplace"}
  \/ last.op \in {"insert_n", "insert_range"} /\ Len(last.xs) > 0
  \/ last.op \in ResizeOps /\ last.n > size(last.pre)
  \/ last.op \in Resize2Ops /\ Mul32(last.w, last.h) > size(last.pre)

\* C2: a length-increasing mutation of a Borrowing grid raises
\* CapacityViolation and leaves the points, the length, width, height and the
\* mode as they were.
C2_BorrowingNeverGrows ==
  last.pre.points.mode = "Borrowing" /\ Grows =>
    /\ last.err = "CapacityViolation"
    /\ cloud = last.pre
    /\ ext = last.preExt
    /\ cloud.points.mode = "Borrowing"

\* a non-empty organized Borrowing grid was asked to grow
C2_Witness ==
  /\ last.pre.points.mode = "Borrowing"
  /\ Grows
  /\ last.pre.height > 1
  /\ last.err = "CapacityViolation"

(* ------------------------------- C3 ------------------------------------ *)
\* C3: concatenate(a, b) and a += b on an Owning a leave a with its former
\* points followed by those of b, width = |a| + |b|, height = 1, is_dense the
\* AND of the two flags and the stamp their maximum; b is unchanged and the
\* call returns true.
C3_Concatenate ==
  last.op \in ConcatOps /\ last.pre.points.mode = "Owning" =>
    /\ last.err = "none"
    /\ last.flag
    /\ cloud.points.mode = "Owning"
    /\ Now = Before \o last.b.points.vec
    /\ cloud.width = size(last.pre) + size(last.b)
    /\ cloud.height = 1
    /\ cloud.is_dense = (last.pre.is_dense /\ last.b.is_dense)
    /\ cloud.header = Max(last.pre.header, last.b.header)
    /\ cloud.sensor = last.pre.sensor
    /\ other = last.b

\* two organized grids were concatenated, the first with the newer stamp and
\* the second not dense
C3_Witness ==
  /\ last.op \in ConcatOps
  /\ last.pre.points.mode = "Owning"
  /\ isOrganized(last.pre)
  /\ isOrganized(last.b)
  /\ last.pre.header > last.b.header
  /\ last.pre.is_dense
  /\ ~last.b.is_dense

(* ------------------------------- C4 ------------------------------------ *)
\* C4 as written: after a plain single-dimension mutation, width and height
\* are unchanged if the new length is the old width * height, and otherwise
\* width is the new length and height is 1.
C4_UnchangedWhenLengthMatches ==
  last.op \in ResizeOps \cup CollapsingOps =>
    IF size(cloud) = Mul32(last.pre.width, last.pre.height)
    THEN cloud.width = last.pre.width /\ cloud.height = last.pre.height
    ELSE cloud.width = size(cloud) /\ cloud.height = 1

\* C4, amended: resize(count) and resize(count, value) leave width and height
\* unchanged if the new length is the old width * height and otherwise set
\* width to the new length and height to 1; assign(count, value),
\* assign(first, last), assign(ilist), push_back, emplace_back, insert, emplace
\* and erase, when they succeed, always set width to the new length and height
\* to 1; a call that fails leaves both unchanged.
C4_SingleDimensionShape ==
  /\ last.op \in ResizeOps /\ last.err = "none" =>
       IF size(cloud) = Mul32(last.pre.width, last.pre.height)
       THEN cloud.width = last.pre.width /\ cloud.height = last.pre.height
       ELSE cloud.width = size(cloud) /\ cloud.height = 1
  /\ last.op \in CollapsingOps /\ last.err = "none" =>
       cloud.width = size(cloud) /\ cloud.height = 1
  /\ last.op \in ResizeOps \cup CollapsingOps /\ last.err # "none" =>
       cloud.width = last.pre.width /\ cloud.height = last.pre.height

\* a resize to the length of an organized grid kept its shape, or another
\* single-dimension mutation to that length collapsed it
C4_Witness ==
  /\ last.op \in ResizeOps \cup CollapsingOps
  /\ last.err = "none"
  /\ isOrganized(last.pre)
  /\ size(cloud) = Mul32(last.pre.width, last.pre.height)
  /\ last.op \in ResizeOps <=> isOrganized(cloud)

SubsetBuilt ==
  /\ phase = "live"
  /\ last.err = "none"
  /\ cloud.points.mode = "Owning"
  /\ size(cloud) = Len(last.xs)
  /\ cloud.width = Len(last.xs)
  /\ cloud.height = 1
  /\ cloud.is_dense = last.b.is_dense
  /\ \A i \in 1..Len(last.xs) : Now[i] = last.b.points.vec[last.xs[i] + 1]
  /\ other = last.b

\* C8 as written: the subset constructor builds its grid for every list of
\* indices below the source length, lists longer than the source included.
C8_AnyIndexList == last.op = "ctor_subset" => SubsetBuilt

\* C8, amended: the subset constructor builds its grid for every list of
\* indices below the source length that is no longer than the source
\* (duplicates and reordering permitted); a longer list fails the
\* constructor's assert.
C8_SubsetWithinSource ==
  last.op = "ctor_subset" /\ Len(last.xs) <= size(last.b) => SubsetBuilt

\* a subset was built from a reordered index list over a source that is not dense
C8_Witness ==
  /\ last.op = "ctor_subset"
  /\ Len(last.xs) = size(last.b)
  /\ Len(last.xs) > 1
  /\ last.xs[1] > last.xs[2]
  /\ ~last.b.is_dense
  /\ last.b.points.vec[1] # last.b.points.vec[2]
  /\ phase = "live"

(* ------------------------------- C9 ------------------------------------ *)
\* C9: PointCloud(pointer, width, height) over an external array of exactly
\* width * height elements is Borrowing and has that length; operator()(col,
\* row), and at(col, row) when height > 1, denote external[row * width + col]
\* for every col < width and row < height; a write through the grid is a write
\* of the external array, and a write of the external array is seen through
\* the grid.
C9_ZeroCopyView ==
  /\ last.op = "ctor_span" /\ ProductIs(last.w, last.h, Len(last.xs)) =>
       /\ cloud.points.mode = "Borrowing"
       /\ size(cloud) = Len(last.xs)
       /\ cloud.width = last.w
       /\ cloud.height = last.h
       /\ ext = last.xs
       /\ \A col \in 0..(last.w - 1), row \in 0..(last.h - 1) :
            /\ paren(cloud, ext, col, row) = {ext[row * last.w + col + 1]}
            /\ last.h > 1 =>
                 at(cloud, ext, col, row) =
                   [err |-> "none", ret |-> ext[row * last.w + col + 1]]
  /\ last.op = "paren_write" /\ last.pre.points.mode = "Borrowing" =>
       /\ cloud = last.pre
       /\ ext = [last.preExt EXCEPT ![last.h * cloud.width + last.w + 1] = last.v]
  /\ last.op = "ext_write" /\ cloud.points.mode = "Borrowing" =>
       /\ cloud = last.pre
       /\ Now[last.pos + 1] = last.v
       /\ \A col \in Coords, row \in Coords :
            row * cloud.width + col = last.pos =>
              paren(cloud, ext, col, row) = {last.v}

\* a write through an organized Borrowing grid changed the external array
C9_Witness ==
  /\ last.op = "paren_write"
  /\ last.pre.points.mode = "Borrowing"
  /\ isOrganized(cloud)
  /\ last.h > 0
  /\ ext # last.preExt

(* ------------------------------- C10 ----------------------------------- *)
\* C10: on an Owning grid of n points, resize(m) and resize(m, value) with
\* m < n leave the first m points, in order and unchanged; with m > n they
\* leave the n points unchanged and make the points after them equal to value
\* (the default point for resize(m)); so resize(n) followed by resize(m) with
\* m < n leaves the first m of the points the grid started with.
C10_ResizeKeepsPrefix ==
  /\ last.op \in ResizeOps /\ last.pre.points.mode = "Owning" =>
       /\ last.err = "none"
       /\ cloud.points.mode = "Owning"
       /\ size(cloud) = last.n
       /\ \A i \in 1..last.n :
            Now[i] = IF i <= Len(Before) THEN Before[i]
                     ELSE IF last.op = "resize" THEN DefaultPoint ELSE last.v
  /\ last.op \in ResizeOps /\ last.chained /\ last.first_n = Len(last.first)
       /\ last.n < last.first_n =>
         Now = SubSeq(last.first, 1, last.n)

\* resize(n) on a grid of n points was followed by a resize(m) with 0 < m < n
C10_Witness ==
  /\ last.op \in ResizeOps
  /\ last.chained
  /\ last.first_n = Len(last.first)
  /\ last.n < last.first_n
  /\ last.n > 0
  /\ \E i \in 1..Len(last.first) : last.first[i] # DefaultPoint

(* ------------------------------- C11 ----------------------------------- *)
TransientBackOps == {"transient_push_back", "transient_emplace_back"}

TransientInsertOps ==
  {"transient_insert", "transient_emplace", "transient_insert_n",
   "transient_insert_range"}

TransientEraseOps == {"transient_erase", "transient_erase_range"}

TransientOps == TransientBackOps \cup TransientInsertOps \cup TransientEraseOps

\* the plain counterpart of the last (transient) call, made with the same
\* arguments from the state that call started from
PlainOfLast ==
  IF last.op \in TransientBackOps
  THEN push_back(last.pre, last.preExt, last.v)
  ELSE IF last.op \in TransientInsertOps
       THEN insert(last.pre, last.preExt, last.pos, last.xs)
       ELSE erase(last.pre, last.preExt, last.pos, last.lst)

\* C11: each transient call ends as its plain counterpart would from the same
\* state and arguments (same failure or success, same buffer, same external
\* array), and leaves width, height, is_dense, the header and the sensor pose
\* as they were.
C11_TransientSameBuffer ==
  last.op \in TransientOps =>
    /\ last.err = PlainOfLast.err
    /\ cloud.points = PlainOfLast.c.points
    /\ ext = PlainOfLast.e
    /\ cloud.width = last.pre.width
    /\ cloud.height = last.pre.height
    /\ cloud.is_dense = last.pre.is_dense
    /\ cloud.header = last.pre.header
    /\ cloud.sensor = last.pre.sensor

\* a transient call changed the length of an organized grid whose width *
\* height was its length, so that the two now differ
C11_Witness ==
  /\ last.op \in TransientOps
  /\ last.err = "none"
  /\ isOrganized(last.pre)
  /\ Mul32(last.pre.width, last.pre.height) = size(last.pre)
  /\ Mul32(cloud.width, cloud.height) # size(cloud)
  /\ PlainOfLast.c.width = size(cloud)

(* ------------------------------- C12 ----------------------------------- *)
\* the number, in the buffer, of the scalar slot the last call's view entry is
SlotOfLast == last.j * last.stride + last.offset + last.i

\* scalar slot k of points s, each point being SlotsPerPoint slots
SlotAt(s, k) == s[(k \div SlotsPerPoint) + 1][(k % SlotsPerPoint) + 1]

\* C12: over N points, each a record of stride scalar slots,
\* getMatrixXfMap(dim, stride, offset) gives a view with the N points on its
\* major axis and dim scalars on its minor axis; its entry for scalar i of
\* point j is slot j * stride + offset + i of the buffer: reading it gives that
\* slot and changes nothing, writing it changes that slot of the point buffer
\* and no other; getMatrixXfMap() is the view for dim = stride = slots per
\* record, offset = 0; with dim = 3, stride = 4, offset = 0 the entries are the
\* x, y, z of the points and no write reaches a padding slot.
C12_MatrixView ==
  last.op \in {"matrix_read", "matrix_write"} =>
    LET N == size(last.pre)
        k == SlotOfLast
    IN /\ last.view.rowMajor => last.view.rows = N /\ last.view.cols = last.dim
       /\ ~last.view.rowMajor => last.view.rows = last.dim /\ last.view.cols = N
       /\ map_entry(last.view, last.i, last.j) = k
       /\ last.form = "getMatrixXfMap0" =>
            /\ last.dim = SlotsPerPoint
            /\ last.stride = SlotsPerPoint
            /\ last.offset = 0
            /\ last.view = getMatrixXfMap(last.pre, SlotsPerPoint, SlotsPerPoint, 0,
                                          last.view.rowMajor)
       /\ last.op = "matrix_read" /\ k < N * last.stride =>
            /\ last.ret = SlotAt(Before, k)
            /\ cloud = last.pre
            /\ ext = last.preExt
       /\ last.op = "matrix_write" =>
            /\ k < N * last.stride
            /\ size(cloud) = N
            /\ [cloud EXCEPT !.points = last.pre.points] = last.pre
            /\ cloud.points.mode = last.pre.points.mode
            /\ \A q \in 0..(N * SlotsPerPoint - 1) :
                 SlotAt(Now, q) = IF q = k THEN last.v ELSE SlotAt(Before, q)
       /\ last.dim = 3 /\ last.stride = 4 /\ last.offset = 0 =>
            /\ last.i < 3
            /\ last.op = "matrix_read" => last.ret = Before[last.j + 1][last.i + 1]
            /\ \A p \in 1..N : Now[p][4] = Before[p][4]
            /\ last.op = "matrix_write" => Now[last.j + 1][last.i + 1] = last.v

\* the z of the second point of a Borrowing grid was written through a view
\* with dim = 3, stride = 4, offset = 0, and the external array changed
C12_Witness ==
  /\ last.op = "matrix_write"
  /\ last.dim = 3
  /\ last.stride = 4
  /\ last.offset = 0
  /\ last.i = 2
  /\ last.j = 1
  /\ last.pre.points.mode = "Borrowing"
  /\ ext # last.preExt
  /\ ext[2][3] = last.v

(* ------------------------------- C13 ----------------------------------- *)
\* the failures a call propagates to its caller
Failures == {"CapacityViolation", "OutOfRange", "UnorganizedAccess"}

\* C13 as written: whenever a non-transient call ends in CapacityViolation,
\* OutOfRange or UnorganizedAccess, the points, the length, width, height,
\* is_dense, the header stamp and the sensor pose are what they were before
\* the call; so concatenate(a, b) and a += b on a Borrowing a with a non-empty
\* b of newer stamp fail and leave a.header.stamp as it was.
C13_NoPartialMutation ==
  last.op \in NonTransientOps \cup {"at"} /\ last.err \in Failures =>
    /\ cloud = last.pre
    /\ ext = last.preExt

\* What holds of C13: a failed non-transient call leaves the points, the
\* length, width, height, is_dense and the sensor pose as they were, and the
\* header stamp too unless the call is concatenate(a, b) or a += b, which
\* leaves the newer of the two stamps in a.
C13_OnlyStampOfConcatenate ==
  last.op \in NonTransientOps \cup {"at"} /\ last.err \in Failures =>
    /\ [cloud EXCEPT !.header = last.pre.header] = last.pre
    /\ ext = last.preExt
    /\ cloud.header =
         IF last.op \in ConcatOps THEN Max(last.pre.header, last.b.header)
         ELSE last.pre.header

\* concatenate on a Borrowing grid failed with a non-empty second grid of
\* newer stamp
C13_Witness ==
  /\ last.op \in ConcatOps
  /\ last.pre.points.mode = "Borrowing"
  /\ size(last.b) > 0
  /\ last.b.header > last.pre.header
  /\ last.err = "CapacityViolation"

(* ------------------------------- C14 ----------------------------------- *)
\* row * width + col < n over the integers, without forming a product that a
\* 32-bit word cannot hold
OffsetBelow(col, row, width, n) ==
  IF row = 0 \/ width = 0 THEN col < n
  ELSE row <= n \div width /\ row * width + col < n

\* C14 as written: on a grid with height > 1, at(col, row) returns
\* points[row * width + col] exactly when row * width + col, as an integer, is
\* below the length, and raises OutOfRange otherwise.
C14_AtChecksOffset ==
  last.op = "at" /\ last.pre.height > 1 =>
    IF OffsetBelow(last.w, last.h, last.pre.width, size(last.pre))
    THEN /\ last.err = "none"
         /\ last.ret = Before[last.h * last.pre.width + last.w + 1]
    ELSE last.err = "OutOfRange"

\* What holds of C14: on a grid with height > 1, at(col, row) returns
\* points[k] exactly when k, that is row * width + col as the code computes it
\* in 32-bit unsigned arithmetic, is below the length, and raises OutOfRange
\* otherwise; the grid is unchanged. The two differ only where row * width +
\* col does not fit 32 bits.
C14_AtChecksWrappedOffset ==
  last.op = "at" /\ last.pre.height > 1 =>
    /\ cloud = last.pre
    /\ ext = last.preExt
    /\ IF at_index(last.pre, last.w, last.h) < size(last.pre)
       THEN /\ last.err = "none"
            /\ last.ret = Before[at_index(last.pre, last.w, last.h) + 1]
       ELSE last.err = "OutOfRange"

\* at succeeded with a column that is no column of the grid, and gave a point
\* of a later row
C14_Witness ==
  /\ last.op = "at"
  /\ last.pre.height > 1
  /\ Mul32(last.pre.width, last.pre.height) = size(last.pre)
  /\ last.w \in Coords
  /\ last.h \in Coords
  /\ last.w >= last.pre.width
  /\ last.h < last.pre.height
  /\ last.err = "none"
  /\ Before[1] # last.ret

\* at raised OutOfRange for a column and row of a grid that transient calls
\* had shortened
C14_WitnessShortened ==
  /\ last.op = "at"
  /\ last.pre.height > 1
  /\ last.w < last.pre.width
  /\ last.h < last.pre.height
  /\ size(last.pre) > 0
  /\ last.err = "OutOfRange"

\* at returned a point for a row and a width whose product does not fit 32 bits
C14_WitnessWrapped ==
  /\ last.op = "at"
  /\ last.pre.height > 1
  /\ last.pre.width = HalfWord
  /\ last.h = HalfWord
  /\ last.err = "none"

(* ------------------------------- C15 ----------------------------------- *)
\* the calls that work on a copy of the grid
CopyingOps == {"plus", "concatenate3", "makeShared"}

\* C15: on a Borrowing grid a, a + b, concatenate(a, b, out) with a third
\* grid out, and makeShared() succeed; the result is Owning and holds the
\* points of a followed by those of b (for makeShared the points of a, with
\* the width, height, is_dense, header and sensor pose of a); a stays
\* Borrowing, with its external storage, length, width, height and header
\* unchanged; and a later mutation of the result (a write of one of its
\* points, a push_back) succeeds without changing the external storage of a.
C15_CopyOfBorrowing ==
  last.op \in CopyingOps /\ last.pre.points.mode = "Borrowing" =>
    /\ last.err = "none"
    /\ last.out.points.mode = "Owning"
    /\ last.out.points.vec =
         IF last.op = "makeShared" THEN Before ELSE Before \o last.b.points.vec
    /\ last.op = "makeShared" =>
         [last.out EXCEPT !.points = last.pre.points] = last.pre
    /\ cloud = last.pre
    /\ cloud.points.mode = "Borrowing"
    /\ ext = last.preExt
    /\ \A v \in Points :
         /\ push_back(last.out, ext, v).err = "none"
         /\ push_back(last.out, ext, v).e = ext
         /\ \A i \in 0..(size(last.out) - 1) :
              /\ paren_write(last.out, ext, i, 0, v).e = ext
              /\ paren_write(last.out, ext, i, 0, v).c.points.vec[i + 1] = v

\* a + b or concatenate(a, b, out) was called on a non-empty organized
\* Borrowing a with a non-empty b
C15_Witness ==
  /\ last.op \in {"plus", "concatenate3"}
  /\ last.pre.points.mode = "Borrowing"
  /\ isOrganized(last.pre)
  /\ size(last.b) > 0
  /\ size(last.out) > size(last.pre)
  /\ \E i \in 1..Len(ext) : ext[i] # DefaultPoint

(* ------------------------------- C16 ----------------------------------- *)
Concat3Ops ==
  {"concatenate3", "concatenate3_into_first", "concatenate3_into_second"}

\* C16 as written: concatenate(a, b, out) leaves in out the points of a
\* followed by those of b, width = |a| + |b|, height = 1, is_dense the AND of
\* the two flags and the stamp their maximum, whether out is a third grid, a
\* itself or b itself; when out is a third grid, a and b are unchanged.
C16_AnyOut ==
  last.op \in Concat3Ops =>
    /\ last.err = "none"
    /\ Elems(last.out.points, ext) = Before \o last.b.points.vec
    /\ last.out.width = size(last.pre) + size(last.b)
    /\ last.out.height = 1
    /\ last.out.is_dense = (last.pre.is_dense /\ last.b.is_dense)
    /\ last.out.header = Max(last.pre.header, last.b.header)
    /\ last.op = "concatenate3" =>
         /\ cloud = last.pre
         /\ ext = last.preExt
         /\ other = last.b

\* What holds of C16: when out is a third grid, or a itself (a being Owning),
\* the result is as C16 says; when out is b itself, b is overwritten with a
\* before anything is read from it, and is left with the points of a followed
\* by as many points read from the buffer while it is inserted into, width =
\* 2 |a|, height = 1, and the is_dense and the stamp of a; a is unchanged.
C16_OutNotSecond ==
  /\ last.op \in {"concatenate3", "concatenate3_into_first"} =>
       /\ last.err = "none"
       /\ last.flag
       /\ last.out.points.mode = "Owning"
       /\ last.out.points.vec = Before \o last.b.points.vec
       /\ last.out.width = size(last.pre) + size(last.b)
       /\ last.out.height = 1
       /\ last.out.is_dense = (last.pre.is_dense /\ last.b.is_dense)
       /\ last.out.header = Max(last.pre.header, last.b.header)
       /\ last.out.sensor = last.pre.sensor
       /\ other = last.b
  /\ last.op = "concatenate3" => cloud = last.pre /\ ext = last.preExt
  /\ last.op = "concatenate3_into_first" => cloud = last.out
  /\ last.op = "concatenate3_into_second" =>
       /\ last.err = "none"
       /\ other = last.out
       /\ last.out.points.vec = Before \o last.xs
       /\ last.out.width = 2 * size(last.pre)
       /\ last.out.height = 1
       /\ last.out.is_dense = last.pre.is_dense
       /\ last.out.header = last.pre.header
       /\ cloud = last.pre
       /\ ext = last.preExt

\* concatenate(a, b, b) was called with an a and a b of different lengths
C16_Witness ==
  /\ last.op = "concatenate3_into_second"
  /\ size(last.pre) > 0
  /\ size(last.b) > size(last.pre)
  /\ last.xs = Before

\* concatenate(a, b, a) was called with two non-empty organized grids
C16_WitnessIntoFirst ==
  /\ last.op = "concatenate3_into_first"
  /\ isOrganized(last.pre)
  /\ isOrganized(last.b)
  /\ cloud.height = 1

(* ------------------------------- C17 ----------------------------------- *)
\* the mutations of one grid: resize, assign, push_back, emplace_back, insert,
\* emplace, erase, clear and the transient calls
SingleGridOps ==
  ResizeOps \cup Resize2Ops \cup CollapsingOps \cup AssignWidthOps
    \cup {"assign2", "clear"} \cup TransientOps

\* C17: resize, assign, push_back, emplace_back, insert, emplace, erase, clear
\* and the transient calls leave is_dense, the header and the sensor pose as
\* they were, whether they succeed or fail; concatenate(a, b) and a += b leave
\* in a the AND of the two flags (the flag of a when they fail) and the sensor
\* pose of a; so none of these calls makes a false is_dense true.
C17_FrameMetadata ==
  /\ last.op \in SingleGridOps =>
       /\ cloud.is_dense = last.pre.is_dense
       /\ cloud.header = last.pre.header
       /\ cloud.sensor = last.pre.sensor
  /\ last.op \in ConcatOps =>
       /\ cloud.is_dense =
            IF last.err = "none" THEN last.pre.is_dense /\ last.b.is_dense
            ELSE last.pre.is_dense
       /\ cloud.sensor = last.pre.sensor
  /\ last.op \in SingleGridOps \cup ConcatOps /\ ~last.pre.is_dense =>
       ~cloud.is_dense

\* C17, over whole runs: once the grid is constructed and is_dense is false,
\* no step makes it true.
C17_NeverDenseAgain ==
  [][phase = "live" /\ ~cloud.is_dense => ~cloud.is_dense']_vars

\* a mutation of one grid changed the points of a grid that is not dense and
\* has a stamp
C17_Witness ==
  /\ last.op \in SingleGridOps
  /\ last.err = "none"
  /\ ~last.pre.is_dense
  /\ last.pre.header > 0
  /\ Now # Before
  /\ size(cloud) > 0
====
